---- MODULE Spec2Model ----
(***************************************************************************)
(* Record integrity verification of the voting application ("Pasya on      *)
(* Chain": VotePage + DashboardPage) and of the attendance application     *)
(* ("Kalahok": AttendancePage + HomePage).                                 *)
(*                                                                         *)
(* Strings are sequences of tokens.  A token is one character of a free    *)
(* text field (a name) or one fixed-length atom (a UUID, the date-time     *)
(* part of a timestamp, a punctuation mark of JSON).  Template literals    *)
(* are concatenations (\o) of such sequences.                              *)
(***************************************************************************)
EXTENDS Naturals, Sequences, FiniteSets, TLC

\* ---------------------------------------------------------------- bounds
MaxRecords == 2   \* rows a record table (votes, attendance) may hold
MaxInstant == 2   \* distinct clock readings (milliseconds)
MaxTamper  == 1   \* out-of-band changes made to stored record rows
MaxCreated == 1   \* elections, and events, an owner creates
MaxField   == 2   \* characters of a field handed to a hashing scheme

\* ------------------------------------------------------------ vocabulary
Null == "null"

ElectionIds == {"e1", "e2"}

\* positions of an election, in position_order (loadElection)
Positions(e) ==
  IF e = "e1"
    THEN << [id |-> "p1", selection_type |-> "single",   max_choices |-> 1],
            [id |-> "p2", selection_type |-> "multiple", max_choices |-> 1] >>
  ELSE IF e = "e3"
    THEN << [id |-> "p4", selection_type |-> "multiple", max_choices |-> 2],
            [id |-> "p5", selection_type |-> "single",   max_choices |-> 1] >>
    ELSE << [id |-> "p3", selection_type |-> "single",   max_choices |-> 1] >>

\* candidates of a position, in candidate_order
Candidates(p) ==
  IF p = "p1" THEN <<"c1", "c2">>
  ELSE IF p = "p2" THEN <<"c3", "c4">>
  ELSE IF p = "p4" THEN <<"c6", "c7", "c8">>
  ELSE IF p = "p5" THEN <<"c9", "c10">>
  ELSE <<"c5">>

\* what a voter may type into the name field
NameInputs == { <<" ">>, <<" ", "a">> }

Instants == 1..MaxInstant

\* the verification calls a page may have in flight at once
Calls == {"A", "B"}

\* the date-time part of an instant, one atom
InstTok(i) == <<"t1", "t2", "t3", "t4">>[i]

\* renderings of one instant: the toISOString form, the offset form a
\* timestamp column renders, and a form one microsecond later
IsoForm    == ".000Z"
OffsetForm == "+00:00"
MicroForm  == ".000001Z"
StoreForms == {IsoForm, OffsetForm}
TsForms    == {IsoForm, OffsetForm, MicroForm}

\* ----------------------------------------------------------------- state
VARIABLES
  app,                \* which application runs: "pasya" (votes) or "kalahok"
  tsRender,           \* how the store renders a timestamp column on read
  tampers,            \* number of out-of-band changes made so far
  created,            \* rows createElection / createEvent have inserted, per table
  hashIn,             \* the field tuple handed to the hashing schemes, or <<>>
  hashOut,            \* the strings the hashing schemes built from hashIn, or <<>>
  tblVotes,           \* table votes: rows, the id of a row is its index
  tblVoteProofs,      \* table vote_proofs: rows [vote_id, proof_hash]
  origVotes,          \* history: each votes row as the store first held it
  submittedOK,        \* history: ids of votes whose submitVote succeeded
  election,           \* VotePage: the loaded election id, or Null
  voterName,          \* VotePage state
  selections,         \* VotePage state
  submitting,         \* VotePage state
  submitted,          \* VotePage state
  sv,                 \* VotePage: the submitVote call in flight
  voteToast,          \* VotePage: the toast of the latest handler step
  selectedElection,   \* DashboardPage state
  votes,              \* DashboardPage state: the verified list displayed
  verifying,          \* DashboardPage state
  dashToast,          \* DashboardPage: the toast of the latest handler step
  lv,                 \* DashboardPage: the loadVotes calls in flight
  lastRun,            \* history: <<[id, flags]>> of the last loadVotes run made
                      \*   over the store as it still is, or <<>>
  tblAttendance,      \* table attendance: rows, the id of a row is its index
  tblIntegrityProofs, \* table integrity_proofs: rows [attendance_id, proof_hash]
  origAttendance,     \* history: each attendance row as first stored
  checkedIn,          \* history: ids of rows whose submitAttendance succeeded
  event,              \* AttendancePage: the loaded event id, or Null
  name,               \* AttendancePage state
  attSubmitting,      \* AttendancePage state (submitting)
  sa,                 \* AttendancePage: the submitAttendance call in flight
  attToast,           \* AttendancePage: the toast of the latest handler step
  selectedEvent,      \* HomePage state
  attendance,         \* HomePage state: the verified list displayed
  homeVerifying,      \* HomePage state (verifying)
  homeToast,          \* HomePage: the toast of the latest handler step
  la,                 \* HomePage: the loadAttendance calls in flight
  lastAttRun          \* history: as lastRun, for loadAttendance

\* ------------------------------------------------------- pure functions
\* range of a sequence
Range(s) == { s[i] : i \in 1..Len(s) }

\* String.prototype.trim
RECURSIVE TrimLeft(_)
TrimLeft(s) == IF s # <<>> /\ Head(s) = " " THEN TrimLeft(Tail(s)) ELSE s

RECURSIVE TrimRight(_)
TrimRight(s) ==
  IF s # <<>> /\ s[Len(s)] = " " THEN TrimRight(SubSeq(s, 1, Len(s) - 1)) ELSE s

trim(s) == TrimRight(TrimLeft(s))

\* new Date().toISOString() at clock reading i
toISOString(i) == <<InstTok(i), IsoForm>>

\* new Date(str): the millisecond instant a timestamp string denotes
DateParse(str) == CHOOSE i \in 1..4 : InstTok(i) = str[1]

\* new Date(record.timestamp).toISOString()
DateRoundTrip(str) == toISOString(DateParse(str))

\* join the strings of a sequence with a separator
RECURSIVE Join(_, _)
Join(strs, sep) ==
  IF strs = <<>> THEN <<>>
  ELSE IF Len(strs) = 1 THEN strs[1]
  ELSE strs[1] \o sep \o Join(Tail(strs), sep)

Quote(id) == <<"\"", id, "\"">>

\* JSON.stringify of a selections object: own keys in insertion order, each
\* value an array of candidate ids.  An object is a sequence of <<key, array>>.
JSONstringify(obj) ==
  <<"{">>
  \o Join([i \in 1..Len(obj) |->
             Quote(obj[i][1]) \o <<":", "[">>
             \o Join([j \in 1..Len(obj[i][2]) |-> Quote(obj[i][2][j])], <<",">>)
             \o <<"]">>],
          <<",">>)
  \o <<"}">>

\* crypto.subtle.digest('SHA-256', ...) rendered as hex: collision-free on the
\* strings of the model, and never equal to its input
SHA256hex(data) == <<"sha256">> \o data

\* a generateHash whose digest depends on what the store holds when it is called
generateHash_stateful(electionId, voterName_, voteData, timestamp) ==
  SHA256hex(<<electionId>> \o <<"|">> \o voterName_ \o <<"|">> \o voteData
            \o <<"|">> \o timestamp
            \o << IF tblVotes = <<>> THEN "first" ELSE "later" >>)

\* VotePage generateHash
generateHash(electionId, voterName_, voteData, timestamp) ==
  SHA256hex(<<electionId>> \o <<"|">> \o voterName_ \o <<"|">> \o voteData
            \o <<"|">> \o timestamp)


\* a JavaScript object as a sequence of <<key, value>>: { ...obj, [k]: v }
\* keeps the position of an existing key and appends a new one
HasKey(obj, k) == \E i \in 1..Len(obj) : obj[i][1] = k

GetKey(obj, k) ==
  IF HasKey(obj, k) THEN obj[CHOOSE i \in 1..Len(obj) : obj[i][1] = k][2] ELSE <<>>

SetKey(obj, k, v) ==
  IF HasKey(obj, k)
    THEN [i \in 1..Len(obj) |-> IF obj[i][1] = k THEN <<k, v>> ELSE obj[i]]
    ELSE Append(obj, <<k, v>>)

\* current.filter(id => id !== candidateId)
Without(arr, x) == SelectSeq(arr, LAMBDA y : y # x)

envVars   == <<app, tsRender, created, hashIn, hashOut>>
voteStore == <<tblVotes, tblVoteProofs, origVotes, submittedOK>>
votePage  == <<election, voterName, selections, submitting, submitted, sv, voteToast>>
dashPage  == <<selectedElection, votes, verifying, dashToast>>
attStore  == <<tblAttendance, tblIntegrityProofs, origAttendance, checkedIn>>
attPage   == <<event, name, attSubmitting, sa, attToast>>
homePage  == <<selectedEvent, attendance, homeVerifying, homeToast>>
pasya     == <<voteStore, votePage, dashPage, lv, lastRun>>
kalahok   == <<attStore, attPage, homePage, la, lastAttRun>>
vars      == <<envVars, tampers, pasya, kalahok>>

svIdle == [pc |-> "idle", timestamp |-> <<>>, hash |-> <<>>, election_id |-> Null,
           voter_name |-> <<>>, vote_data |-> <<>>, voteRecord |-> 0,
           voteInserts |-> 0, proofInserts |-> 0]

saIdle == [pc |-> "idle", timestamp |-> <<>>, hash |-> <<>>, event_id |-> Null,
           name |-> <<>>, inserts |-> 0]

callIdle == [pc |-> "idle", id |-> Null, data |-> <<>>, res |-> <<>>,
             recheck |-> FALSE, dirty |-> FALSE, okAtStart |-> {}]

noneCreated == [elections |-> 0, positions |-> 0, candidates |-> 0, events |-> 0]

pending == [done |-> FALSE, verified |-> FALSE, proof |-> <<>>, computed |-> <<>>]

Init ==
  /\ app \in {"pasya", "kalahok"}
  /\ tsRender \in StoreForms
  /\ tampers = 0
  /\ created = noneCreated
  /\ hashIn = <<>>
  /\ hashOut = <<>>
  /\ tblVotes = <<>>
  /\ tblVoteProofs = <<>>
  /\ origVotes = <<>>
  /\ submittedOK = {}
  /\ election = Null
  /\ voterName = <<>>
  /\ selections = <<>>
  /\ submitting = FALSE
  /\ submitted = FALSE
  /\ sv = svIdle
  /\ voteToast = ""
  /\ selectedElection = Null
  /\ votes = <<>>
  /\ verifying = FALSE
  /\ dashToast = ""
  /\ lv = [c \in Calls |-> callIdle]
  /\ lastRun = <<>>
  /\ tblAttendance = <<>>
  /\ tblIntegrityProofs = <<>>
  /\ origAttendance = <<>>
  /\ checkedIn = {}
  /\ event = Null
  /\ name = <<>>
  /\ attSubmitting = FALSE
  /\ sa = saIdle
  /\ attToast = ""
  /\ selectedEvent = Null
  /\ attendance = <<>>
  /\ homeVerifying = FALSE
  /\ homeToast = ""
  /\ la = [c \in Calls |-> callIdle]
  /\ lastAttRun = <<>>

\* what a write to the store does to the history of the verifications: the
\* calls in flight have seen a change, the last run no longer describes the store
Dirty(calls) ==
  [c \in Calls |-> IF calls[c].pc = "idle" THEN calls[c]
                   ELSE [calls[c] EXCEPT !.dirty = TRUE]]

VoteStoreChanged == lv' = Dirty(lv) /\ lastRun' = <<>>

\* --------------------------------------------------------------- VotePage
\* useEffect -> loadElection: the page is opened for election e
loadElection(e) ==
  /\ app = "pasya"
  /\ election = Null
  /\ election' = e
  /\ voterName' = <<>>
  /\ selections' = <<>>
  /\ submitting' = FALSE
  /\ submitted' = FALSE
  /\ voteToast' = ""
  /\ UNCHANGED <<envVars, tampers, voteStore, sv, dashPage, lv, lastRun, kalahok>>

\* onChange of the name input
setVoterName(n) ==
  /\ election # Null
  /\ ~submitted
  /\ voterName # n
  /\ voterName' = n
  /\ voteToast' = ""
  /\ UNCHANGED <<envVars, tampers, voteStore, election, selections, submitting,
                 submitted, sv, dashPage, lv, lastRun, kalahok>>

\* a handleSelection that adds a candidate to a multiple-choice position without
\* looking at max_choices
Select_noLimit(sel, positionId, candidateId, selectionType, maxChoices) ==
  LET current == GetKey(sel, positionId) IN
    IF selectionType = "single"
      THEN [sel |-> SetKey(sel, positionId, <<candidateId>>), toast |-> ""]
    ELSE IF candidateId \in Range(current)
      THEN [sel |-> SetKey(sel, positionId, Without(current, candidateId)), toast |-> ""]
    ELSE [sel |-> SetKey(sel, positionId, Append(current, candidateId)), toast |-> ""]

\* the selections handleSelection sets, and the toast it shows
Select(sel, positionId, candidateId, selectionType, maxChoices) ==
  LET current == GetKey(sel, positionId) IN
    IF selectionType = "single"
      THEN [sel |-> SetKey(sel, positionId, <<candidateId>>), toast |-> ""]
    ELSE IF candidateId \in Range(current)
      THEN [sel |-> SetKey(sel, positionId, Without(current, candidateId)), toast |-> ""]
    ELSE IF Len(current) < maxChoices
      THEN [sel |-> SetKey(sel, positionId, Append(current, candidateId)), toast |-> ""]
    ELSE [sel |-> sel, toast |-> "Maximum choices allowed"]

handleSelection(positionId, candidateId, selectionType, maxChoices) ==
  /\ election # Null
  /\ ~submitted
  /\ LET r == Select(selections, positionId, candidateId, selectionType, maxChoices)
     IN /\ selections' = r.sel
        /\ voteToast' = r.toast
  /\ UNCHANGED <<envVars, tampers, voteStore, election, voterName, submitting,
                 submitted, sv, dashPage, lv, lastRun, kalahok>>

\* submitVote reading the clock once for the hash and once more for the record
submitVote_call_twoClocks(el, vname, sel, now) ==
  IF trim(vname) = <<>>
    THEN /\ voteToast' = ""
         /\ UNCHANGED <<submitting, sv>>
  ELSE IF Len(sel) # Len(Positions(el))
    THEN /\ voteToast' = "Please vote for all positions"
         /\ UNCHANGED <<submitting, sv>>
  ELSE LET voteData == JSONstringify(sel)
       IN /\ submitting' = TRUE
          /\ sv' = [svIdle EXCEPT
                      !.pc = "votes",
                      !.timestamp = toISOString((now % MaxInstant) + 1),
                      !.hash = generateHash(el, trim(vname), voteData, toISOString(now)),
                      !.election_id = el,
                      !.voter_name = trim(vname),
                      !.vote_data = sel]
          /\ voteToast' = ""

\* submitVote up to its first store call, on the page state it is given: the
\* guards, the timestamp, the hash
submitVote_call(el, vname, sel, now) ==
  IF trim(vname) = <<>>
    THEN /\ voteToast' = ""
         /\ UNCHANGED <<submitting, sv>>
  ELSE IF Len(sel) # Len(Positions(el))
    THEN /\ voteToast' = "Please vote for all positions"
         /\ UNCHANGED <<submitting, sv>>
  ELSE LET timestamp == toISOString(now)
           voteData  == JSONstringify(sel)
       IN /\ submitting' = TRUE
          /\ sv' = [svIdle EXCEPT
                      !.pc = "votes",
                      !.timestamp = timestamp,
                      !.hash = generateHash(el, trim(vname), voteData, timestamp),
                      !.election_id = el,
                      !.voter_name = trim(vname),
                      !.vote_data = sel]
          /\ voteToast' = ""

submitVote(now) ==
  /\ election # Null
  /\ ~submitted
  /\ sv.pc = "idle"
  /\ Len(tblVotes) < MaxRecords
  /\ submitVote_call(election, voterName, selections, now)
  /\ UNCHANGED <<envVars, tampers, voteStore, election, voterName, selections,
                 submitted, dashPage, lv, lastRun, kalahok>>

\* the store keeps a timestamp as an instant and renders it in its own form
StoreRender(timestamp) == <<timestamp[1], tsRender>>

\* submitVote lacking the return after a failed votes insert
submitVote_votes_noReturn(ok) ==
  /\ sv.pc = "votes"
  /\ IF ok
       THEN LET row == [id |-> Len(tblVotes) + 1,
                        election_id |-> sv.election_id,
                        voter_name |-> sv.voter_name,
                        vote_data |-> sv.vote_data,
                        timestamp |-> <<sv.timestamp[1], tsRender>>]
            IN /\ tblVotes' = Append(tblVotes, row)
               /\ origVotes' = Append(origVotes, row)
               /\ sv' = [sv EXCEPT !.pc = "proofs", !.voteRecord = row.id,
                                   !.voteInserts = @ + 1]
               /\ VoteStoreChanged
               /\ UNCHANGED <<submitting, voteToast>>
       ELSE /\ voteToast' = "Failed to submit vote"
            /\ submitting' = FALSE
            /\ sv' = [sv EXCEPT !.pc = "proofs", !.voteInserts = @ + 1]
            /\ UNCHANGED <<tblVotes, origVotes, lv, lastRun>>
  /\ UNCHANGED <<envVars, tampers, tblVoteProofs, submittedOK, election, voterName,
                 selections, submitted, dashPage, kalahok>>

\* submitVote making the votes insert again after it failed a first time
submitVote_votes_retry(ok) ==
  /\ sv.pc = "votes"
  /\ IF ok
       THEN LET row == [id |-> Len(tblVotes) + 1,
                        election_id |-> sv.election_id,
                        voter_name |-> sv.voter_name,
                        vote_data |-> sv.vote_data,
                        timestamp |-> <<sv.timestamp[1], tsRender>>]
            IN /\ tblVotes' = Append(tblVotes, row)
               /\ origVotes' = Append(origVotes, row)
               /\ sv' = [sv EXCEPT !.pc = "proofs", !.voteRecord = row.id,
                                   !.voteInserts = @ + 1]
               /\ VoteStoreChanged
               /\ UNCHANGED <<submitting, voteToast>>
       ELSE /\ voteToast' = "Failed to submit vote"
            /\ submitting' = (sv.voteInserts = 0)
            /\ sv' = [sv EXCEPT !.pc = IF sv.voteInserts = 0 THEN "votes" ELSE "idle",
                                !.voteInserts = @ + 1]
            /\ UNCHANGED <<tblVotes, origVotes, lv, lastRun>>
  /\ UNCHANGED <<envVars, tampers, tblVoteProofs, submittedOK, election, voterName,
                 selections, submitted, dashPage, kalahok>>

\* the votes insert returns: the row, or an error
submitVote_votes(ok) ==
  /\ sv.pc = "votes"
  /\ IF ok
       THEN LET row == [id |-> Len(tblVotes) + 1,
                        election_id |-> sv.election_id,
                        voter_name |-> sv.voter_name,
                        vote_data |-> sv.vote_data,
                        timestamp |-> StoreRender(sv.timestamp)]
            IN /\ tblVotes' = Append(tblVotes, row)
               /\ origVotes' = Append(origVotes, row)
               /\ sv' = [sv EXCEPT !.pc = "proofs", !.voteRecord = row.id,
                                   !.voteInserts = @ + 1]
               /\ VoteStoreChanged
               /\ UNCHANGED <<submitting, voteToast>>
       ELSE /\ voteToast' = "Failed to submit vote"
            /\ submitting' = FALSE
            /\ sv' = [sv EXCEPT !.pc = "idle", !.voteInserts = @ + 1]
            /\ UNCHANGED <<tblVotes, origVotes, lv, lastRun>>
  /\ UNCHANGED <<envVars, tampers, tblVoteProofs, submittedOK, election, voterName,
                 selections, submitted, dashPage, kalahok>>

\* submitVote reporting success whatever the vote_proofs insert returned
submitVote_proofs_alwaysSubmitted(ok) ==
  /\ sv.pc = "proofs"
  /\ sv' = [sv EXCEPT !.pc = "idle", !.proofInserts = @ + 1]
  /\ submitting' = FALSE
  /\ submitted' = TRUE
  /\ IF ok
       THEN /\ tblVoteProofs' = Append(tblVoteProofs,
                                       [vote_id |-> sv.voteRecord, proof_hash |-> sv.hash])
            /\ submittedOK' = submittedOK \cup {sv.voteRecord}
            /\ voteToast' = "Vote submitted successfully!"
            /\ VoteStoreChanged
       ELSE /\ voteToast' = "Failed to create vote proof"
            /\ UNCHANGED <<tblVoteProofs, submittedOK, lv, lastRun>>
  /\ UNCHANGED <<envVars, tampers, tblVotes, origVotes, election, voterName,
                 selections, dashPage, kalahok>>

\* submitVote keying the proof row by an id other than that of the row the votes
\* insert returned
submitVote_proofs_otherId(ok) ==
  /\ sv.pc = "proofs"
  /\ sv' = [sv EXCEPT !.pc = "idle", !.proofInserts = @ + 1]
  /\ submitting' = FALSE
  /\ IF ok
       THEN /\ tblVoteProofs' = Append(tblVoteProofs,
                                       [vote_id |-> sv.voteRecord + 1, proof_hash |-> sv.hash])
            /\ submittedOK' = submittedOK \cup {sv.voteRecord}
            /\ voteToast' = "Vote submitted successfully!"
            /\ submitted' = TRUE
            /\ VoteStoreChanged
       ELSE /\ voteToast' = "Failed to create vote proof"
            /\ UNCHANGED <<tblVoteProofs, submittedOK, submitted, lv, lastRun>>
  /\ UNCHANGED <<envVars, tampers, tblVotes, origVotes, election, voterName,
                 selections, dashPage, kalahok>>

\* submitVote inserting the proof row twice
submitVote_proofs_twice(ok) ==
  /\ sv.pc = "proofs"
  /\ sv' = [sv EXCEPT !.pc = "idle", !.proofInserts = @ + 1]
  /\ submitting' = FALSE
  /\ IF ok
       THEN /\ tblVoteProofs' = tblVoteProofs
                                  \o << [vote_id |-> sv.voteRecord, proof_hash |-> sv.hash],
                                        [vote_id |-> sv.voteRecord, proof_hash |-> sv.hash] >>
            /\ submittedOK' = submittedOK \cup {sv.voteRecord}
            /\ voteToast' = "Vote submitted successfully!"
            /\ submitted' = TRUE
            /\ VoteStoreChanged
       ELSE /\ voteToast' = "Failed to create vote proof"
            /\ UNCHANGED <<tblVoteProofs, submittedOK, submitted, lv, lastRun>>
  /\ UNCHANGED <<envVars, tampers, tblVotes, origVotes, election, voterName,
                 selections, dashPage, kalahok>>

\* submitVote taking the vote row back when the vote_proofs insert failed
submitVote_proofs_rollback(ok) ==
  /\ sv.pc = "proofs"
  /\ sv' = [sv EXCEPT !.pc = "idle", !.proofInserts = @ + 1]
  /\ submitting' = FALSE
  /\ IF ok
       THEN /\ tblVoteProofs' = Append(tblVoteProofs,
                                       [vote_id |-> sv.voteRecord, proof_hash |-> sv.hash])
            /\ submittedOK' = submittedOK \cup {sv.voteRecord}
            /\ voteToast' = "Vote submitted successfully!"
            /\ submitted' = TRUE
            /\ UNCHANGED <<tblVotes, origVotes>>
       ELSE /\ voteToast' = "Failed to create vote proof"
            /\ tblVotes' = SubSeq(tblVotes, 1, Len(tblVotes) - 1)
            /\ origVotes' = SubSeq(origVotes, 1, Len(origVotes) - 1)
            /\ UNCHANGED <<tblVoteProofs, submittedOK, submitted>>
  /\ VoteStoreChanged
  /\ UNCHANGED <<envVars, tampers, election, voterName, selections, dashPage, kalahok>>

\* submitVote leaving submitting set when the vote_proofs insert failed
submitVote_proofs_stuck(ok) ==
  /\ sv.pc = "proofs"
  /\ sv' = [sv EXCEPT !.pc = "idle", !.proofInserts = @ + 1]
  /\ IF ok
       THEN /\ tblVoteProofs' = Append(tblVoteProofs,
                                       [vote_id |-> sv.voteRecord, proof_hash |-> sv.hash])
            /\ submittedOK' = submittedOK \cup {sv.voteRecord}
            /\ voteToast' = "Vote submitted successfully!"
            /\ submitted' = TRUE
            /\ submitting' = FALSE
            /\ VoteStoreChanged
       ELSE /\ voteToast' = "Failed to create vote proof"
            /\ UNCHANGED <<tblVoteProofs, submittedOK, submitted, submitting, lv, lastRun>>
  /\ UNCHANGED <<envVars, tampers, tblVotes, origVotes, election, voterName,
                 selections, dashPage, kalahok>>

\* the vote_proofs insert returns
submitVote_proofs(ok) ==
  /\ sv.pc = "proofs"
  /\ sv' = [sv EXCEPT !.pc = "idle", !.proofInserts = @ + 1]
  /\ submitting' = FALSE
  /\ IF ok
       THEN /\ tblVoteProofs' = Append(tblVoteProofs,
                                       [vote_id |-> sv.voteRecord, proof_hash |-> sv.hash])
            /\ submittedOK' = submittedOK \cup {sv.voteRecord}
            /\ voteToast' = "Vote submitted successfully!"
            /\ submitted' = TRUE
            /\ VoteStoreChanged
       ELSE /\ voteToast' = "Failed to create vote proof"
            /\ UNCHANGED <<tblVoteProofs, submittedOK, submitted, lv, lastRun>>
  /\ UNCHANGED <<envVars, tampers, tblVotes, origVotes, election, voterName,
                 selections, dashPage, kalahok>>

resetForm ==
  /\ submitted
  /\ voterName' = <<>>
  /\ selections' = <<>>
  /\ submitted' = FALSE
  /\ voteToast' = ""
  /\ UNCHANGED <<envVars, tampers, voteStore, election, submitting, sv, dashPage,
                 lv, lastRun, kalahok>>

\* the selections after a sequence of clicks <<position index, candidate index>>
RECURSIVE Fill(_, _, _)
Fill(sel, e, clicks) ==
  IF clicks = <<>> THEN sel
  ELSE LET p == Positions(e)[Head(clicks)[1]]
           c == Candidates(p.id)[Head(clicks)[2]]
       IN Fill(Select(sel, p.id, c, p.selection_type, p.max_choices).sel, e, Tail(clicks))

\* the ballots voters cast in the audited runs: the election, the name typed
\* and the clicks made
Ballots ==
  { [election |-> "e1", voterName |-> <<" ", "a">>, clicks |-> << <<1, 1>>, <<2, 1>> >>],
    [election |-> "e1", voterName |-> <<"b">>, clicks |-> << <<2, 2>>, <<1, 1>>, <<1, 2>> >>],
    [election |-> "e2", voterName |-> <<"b">>, clicks |-> << <<1, 1>> >>] }

\* a voter opens the page of an election, types a name, makes the clicks and
\* submits: loadElection, setVoterName, handleSelection and submitVote in a row
\* (up to submitVote's first store call these touch the page's own state only)
castVote(b, now) ==
  /\ app = "pasya"
  /\ sv.pc = "idle"
  /\ Len(tblVotes) < MaxRecords
  /\ election' = b.election
  /\ voterName' = b.voterName
  /\ selections' = Fill(<<>>, b.election, b.clicks)
  /\ submitted' = FALSE
  /\ submitVote_call(b.election, b.voterName, Fill(<<>>, b.election, b.clicks), now)
  /\ UNCHANGED <<envVars, tampers, voteStore, dashPage, lv, lastRun, kalahok>>

\* ---------------------------------------------------------- DashboardPage
\* the sort key of a timestamp column value
TsKey(timestamp) == 2 * DateParse(timestamp) + (IF timestamp[2] = MicroForm THEN 1 ELSE 0)

\* .select('*').eq(column, value).order('timestamp', { ascending: false }):
\* every ordering of the matching rows with timestamps descending
SelectOrdered(table, column, value) ==
  LET matches(r) == r[column] = value
      rows == SelectSeq(table, matches)
      n    == Len(rows)
  IN { [i \in 1..n |-> rows[p[i]]] :
         p \in { q \in [1..n -> 1..n] :
                   /\ \A i, j \in 1..n : i # j => q[i] # q[j]
                   /\ \A i, j \in 1..n :
                        i < j => TsKey(rows[q[i]].timestamp) >= TsKey(rows[q[j]].timestamp) } }

\* .select('proof_hash').eq(column, id).single(): the row when exactly one
\* matches, otherwise no data
SelectSingle(table, column, value) ==
  LET matches(r) == r[column] = value
      rows == SelectSeq(table, matches)
  IN IF Len(rows) = 1 THEN <<rows[1]>> ELSE <<>>

\* loadVotes' callback hashing the stored timestamp string as it is
loadVotes_verify_verbatim(record, proof) ==
  IF proof = <<>>
    THEN [done |-> TRUE, verified |-> FALSE, proof |-> <<>>, computed |-> <<>>]
    ELSE LET computedHash == generateHash(record.election_id, record.voter_name,
                                          JSONstringify(record.vote_data), record.timestamp)
         IN [done |-> TRUE,
             verified |-> (computedHash = proof[1].proof_hash),
             proof |-> <<proof[1].proof_hash>>,
             computed |-> <<computedHash>>]

\* loadVotes' callback taking a record without a proof row for a valid one
loadVotes_verify_missingValid(record, proof) ==
  IF proof = <<>>
    THEN [done |-> TRUE, verified |-> TRUE, proof |-> <<>>, computed |-> <<>>]
    ELSE LET computedHash == generateHash(record.election_id, record.voter_name,
                                          JSONstringify(record.vote_data),
                                          DateRoundTrip(record.timestamp))
         IN [done |-> TRUE,
             verified |-> (computedHash = proof[1].proof_hash),
             proof |-> <<proof[1].proof_hash>>,
             computed |-> <<computedHash>>]

\* the callback loadVotes maps over data, after its proof lookup returned
loadVotes_verify(record, proof) ==
  IF proof = <<>>
    THEN [done |-> TRUE, verified |-> FALSE, proof |-> <<>>, computed |-> <<>>]
    ELSE LET timestampStr == DateRoundTrip(record.timestamp)
             voteData     == JSONstringify(record.vote_data)
             data         == <<record.election_id>> \o <<"|">> \o record.voter_name
                             \o <<"|">> \o voteData \o <<"|">> \o timestampStr
             computedHash == SHA256hex(data)
         IN [done |-> TRUE,
             verified |-> (computedHash = proof[1].proof_hash),
             proof |-> <<proof[1].proof_hash>>,
             computed |-> <<computedHash>>]

\* loadVotes up to its store query; recheck marks a call made by recheckIntegrity
loadVotes_start(c, electionId, recheck) ==
  /\ app = "pasya"
  /\ lv[c].pc = "idle"
  /\ selectedElection' = electionId
  /\ lv' = [lv EXCEPT ![c] = [callIdle EXCEPT !.pc = "query", !.id = electionId,
                                              !.recheck = recheck,
                                              !.okAtStart = submittedOK]]

loadVotes(c, electionId) ==
  /\ loadVotes_start(c, electionId, FALSE)
  /\ dashToast' = ""
  /\ UNCHANGED <<envVars, tampers, voteStore, votePage, votes, verifying, lastRun, kalahok>>

recheckIntegrity(c) ==
  /\ selectedElection # Null
  /\ ~verifying
  /\ verifying' = TRUE
  /\ loadVotes_start(c, selectedElection, TRUE)
  /\ dashToast' = ""
  /\ UNCHANGED <<envVars, tampers, voteStore, votePage, votes, lastRun, kalahok>>

\* the votes query returns
loadVotes_query(c) ==
  /\ lv[c].pc = "query"
  /\ \E data \in SelectOrdered(tblVotes, "election_id", lv[c].id) :
       lv' = [lv EXCEPT ![c].pc = "lookups", ![c].data = data,
                        ![c].res = [i \in 1..Len(data) |-> pending]]
  /\ UNCHANGED <<envVars, tampers, voteStore, votePage, dashPage, lastRun, kalahok>>

\* loadVotes writing the digest it computed as the proof of a record that has none
loadVotes_lookup_repair(c, i) ==
  /\ lv[c].pc = "lookups"
  /\ i \in 1..Len(lv[c].data)
  /\ ~lv[c].res[i].done
  /\ LET record == lv[c].data[i]
         proof  == SelectSingle(tblVoteProofs, "vote_id", record.id)
     IN /\ lv' = [lv EXCEPT ![c].res[i] = loadVotes_verify(record, proof)]
        /\ tblVoteProofs' =
             IF proof # <<>> THEN tblVoteProofs
             ELSE Append(tblVoteProofs,
                         [vote_id |-> record.id,
                          proof_hash |-> generateHash(record.election_id, record.voter_name,
                                                      JSONstringify(record.vote_data),
                                                      DateRoundTrip(record.timestamp))])
  /\ UNCHANGED <<envVars, tampers, tblVotes, origVotes, submittedOK, votePage,
                 dashPage, lastRun, kalahok>>

\* loadVotes hashing the time of the verification in place of the stored timestamp
loadVotes_lookup_now(c, i) ==
  /\ lv[c].pc = "lookups"
  /\ i \in 1..Len(lv[c].data)
  /\ ~lv[c].res[i].done
  /\ \E now \in Instants :
       LET record == [lv[c].data[i] EXCEPT !.timestamp = toISOString(now)]
           proof  == SelectSingle(tblVoteProofs, "vote_id", record.id)
       IN lv' = [lv EXCEPT ![c].res[i] = loadVotes_verify(record, proof)]
  /\ UNCHANGED <<envVars, tampers, voteStore, votePage, dashPage, lastRun, kalahok>>

\* loadVotes looking every record's proof up under the id of the first record
loadVotes_lookup_firstProof(c, i) ==
  /\ lv[c].pc = "lookups"
  /\ i \in 1..Len(lv[c].data)
  /\ ~lv[c].res[i].done
  /\ LET record == lv[c].data[i]
         proof  == SelectSingle(tblVoteProofs, "vote_id", lv[c].data[1].id)
     IN lv' = [lv EXCEPT ![c].res[i] = loadVotes_verify(record, proof)]
  /\ UNCHANGED <<envVars, tampers, voteStore, votePage, dashPage, lastRun, kalahok>>

\* loadVotes deleting the proof row it has read
loadVotes_lookup_consume(c, i) ==
  /\ lv[c].pc = "lookups"
  /\ i \in 1..Len(lv[c].data)
  /\ ~lv[c].res[i].done
  /\ LET record == lv[c].data[i]
         proof  == SelectSingle(tblVoteProofs, "vote_id", record.id)
     IN /\ lv' = [lv EXCEPT ![c].res[i] = loadVotes_verify(record, proof)]
        /\ tblVoteProofs' = SelectSeq(tblVoteProofs, LAMBDA p : p.vote_id # record.id)
  /\ UNCHANGED <<envVars, tampers, tblVotes, origVotes, submittedOK, votePage,
                 dashPage, lastRun, kalahok>>

\* loadVotes counting a record whose submission is still in flight as valid
loadVotes_lookup_optimistic(c, i) ==
  /\ lv[c].pc = "lookups"
  /\ i \in 1..Len(lv[c].data)
  /\ ~lv[c].res[i].done
  /\ LET record == lv[c].data[i]
         proof  == SelectSingle(tblVoteProofs, "vote_id", record.id)
     IN lv' = [lv EXCEPT ![c].res[i] =
                 IF sv.pc = "proofs" /\ sv.voteRecord = record.id
                   THEN [done |-> TRUE, verified |-> TRUE, proof |-> <<>>,
                         computed |-> <<>>]
                   ELSE loadVotes_verify(record, proof)]
  /\ UNCHANGED <<envVars, tampers, voteStore, votePage, dashPage, lastRun, kalahok>>

\* the proof lookup of record i returns and its callback runs to the end
loadVotes_lookup(c, i) ==
  /\ lv[c].pc = "lookups"
  /\ i \in 1..Len(lv[c].data)
  /\ ~lv[c].res[i].done
  /\ LET record == lv[c].data[i]
         proof  == SelectSingle(tblVoteProofs, "vote_id", record.id)
     IN lv' = [lv EXCEPT ![c].res[i] = loadVotes_verify(record, proof)]
  /\ UNCHANGED <<envVars, tampers, voteStore, votePage, dashPage, lastRun, kalahok>>

\* the results collected last record first
VerifiedReversed(call) ==
  [i \in 1..Len(call.data) |->
     [rec |-> call.data[Len(call.data) + 1 - i],
      verified |-> call.res[Len(call.data) + 1 - i].verified]]

\* what Promise.all resolves to: one entry per record of data, in data's order
Verified(call) ==
  [i \in 1..Len(call.data) |-> [rec |-> call.data[i], verified |-> call.res[i].verified]]

\* the flag of every record id in a verified list
Flags(list) == { <<list[i].rec.id, list[i].verified>> : i \in 1..Len(list) }

\* Promise.all resolved: setVotes, and the tail of recheckIntegrity
loadVotes_finish(c) ==
  /\ lv[c].pc = "lookups"
  /\ \A i \in 1..Len(lv[c].data) : lv[c].res[i].done
  /\ votes' = Verified(lv[c])
  /\ lv' = [lv EXCEPT ![c] = callIdle]
  /\ lastRun' = IF lv[c].dirty THEN lastRun
                ELSE <<[id |-> lv[c].id, flags |-> Flags(Verified(lv[c]))]>>
  /\ IF lv[c].recheck
       THEN /\ dashToast' = "Integrity check completed"
            /\ verifying' = FALSE
       ELSE UNCHANGED <<dashToast, verifying>>
  /\ UNCHANGED <<envVars, tampers, voteStore, votePage, selectedElection, kalahok>>

\* createElection with the form filled in (a name, one position with one
\* candidate): the elections insert, then per position its insert and the
\* inserts of its candidates; a failed positions insert skips the position, the
\* result of a candidates insert is not looked at
createElection(okElection, okPosition, okCandidate) ==
  /\ app = "pasya"
  /\ created.elections < MaxCreated
  /\ IF ~okElection
       THEN /\ dashToast' = "Failed to create election"
            /\ UNCHANGED created
       ELSE /\ created' = [created EXCEPT
                             !.elections = @ + 1,
                             !.positions = @ + (IF okPosition THEN 1 ELSE 0),
                             !.candidates = @ + (IF okPosition /\ okCandidate THEN 1 ELSE 0)]
            /\ dashToast' = "Election created successfully!"
  /\ UNCHANGED <<app, tsRender, hashIn, hashOut, tampers, voteStore, votePage,
                 selectedElection, votes, verifying, lv, lastRun, kalahok>>

\* ------------------------------------------------------------ environment
\* values an out-of-band change may write into a record row
TamperNames == { <<"c">> }

TamperVoteData == { << <<"p2", <<"c3">>>>, <<"p1", <<"c1">>>> >> }

\* timestamps an out-of-band change may write: the first instant a microsecond
\* later, and the last instant as toISOString renders it
TamperTimestamps == { <<InstTok(1), MicroForm>>, <<InstTok(MaxInstant), IsoForm>> }

\* somebody with access to the database changes one hashed column of a votes row
TamperVote(id, column, value) ==
  /\ app = "pasya"
  /\ tampers < MaxTamper
  /\ id \in 1..Len(tblVotes)
  /\ tblVotes[id][column] # value
  /\ tblVotes' = [tblVotes EXCEPT ![id][column] = value]
  /\ tampers' = tampers + 1
  /\ VoteStoreChanged
  /\ UNCHANGED <<envVars, tblVoteProofs, origVotes, submittedOK, votePage, dashPage,
                 kalahok>>

TamperVotes ==
  \E id \in 1..MaxRecords :
    \/ \E v \in ElectionIds : TamperVote(id, "election_id", v)
    \/ \E v \in TamperNames : TamperVote(id, "voter_name", v)
    \/ \E v \in TamperVoteData : TamperVote(id, "vote_data", v)
    \/ \E v \in TamperTimestamps : TamperVote(id, "timestamp", v)

\* --------------------------------------------------------- AttendancePage
EventIds == {"ev1", "ev2"}

\* AttendancePage generateHash
generateHashAttendance(eventId, name_, timestamp) ==
  SHA256hex(<<eventId>> \o name_ \o timestamp)

AttStoreChanged == la' = Dirty(la) /\ lastAttRun' = <<>>

\* useEffect -> loadEvent: the page is opened for event ev
loadEvent(ev) ==
  /\ app = "kalahok"
  /\ event = Null
  /\ event' = ev
  /\ UNCHANGED <<envVars, tampers, pasya, attStore, name, attSubmitting, sa, attToast,
                 homePage, la, lastAttRun>>

\* onChange of the name input
setName(n) ==
  /\ event # Null
  /\ name # n
  /\ name' = n
  /\ attToast' = ""
  /\ UNCHANGED <<envVars, tampers, pasya, attStore, event, attSubmitting, sa,
                 homePage, la, lastAttRun>>

\* submitAttendance up to its store call, on the page state it is given
submitAttendance_call(ev, n, now) ==
  IF trim(n) = <<>>
    THEN UNCHANGED <<attSubmitting, sa>>
    ELSE LET timestamp == toISOString(now)
         IN /\ attSubmitting' = TRUE
            /\ sa' = [saIdle EXCEPT
                        !.pc = "attendance",
                        !.timestamp = timestamp,
                        !.hash = generateHashAttendance(ev, n, timestamp),
                        !.event_id = ev,
                        !.name = trim(n)]

submitAttendance(now) ==
  /\ event # Null
  /\ sa.pc = "idle"
  /\ Len(tblAttendance) < MaxRecords
  /\ submitAttendance_call(event, name, now)
  /\ attToast' = ""
  /\ UNCHANGED <<envVars, tampers, pasya, attStore, event, name, homePage, la, lastAttRun>>

\* the attendance insert returns
submitAttendance_insert(ok) ==
  /\ sa.pc = "attendance"
  /\ sa' = [sa EXCEPT !.pc = "idle", !.inserts = @ + 1]
  /\ attSubmitting' = FALSE
  /\ IF ok
       THEN LET row == [id |-> Len(tblAttendance) + 1,
                        event_id |-> sa.event_id,
                        name |-> sa.name,
                        timestamp |-> StoreRender(sa.timestamp),
                        hash |-> sa.hash]
            IN /\ tblAttendance' = Append(tblAttendance, row)
               /\ origAttendance' = Append(origAttendance, row)
               /\ checkedIn' = checkedIn \cup {row.id}
               /\ attToast' = "Attendance submitted successfully!"
               /\ name' = <<>>
               /\ AttStoreChanged
       ELSE /\ attToast' = "Failed to submit attendance"
            /\ UNCHANGED <<tblAttendance, origAttendance, checkedIn, name, la, lastAttRun>>
  /\ UNCHANGED <<envVars, tampers, pasya, tblIntegrityProofs, event, homePage>>

\* an attendee opens the page of an event, types a name and submits: loadEvent,
\* setName and submitAttendance in a row
checkIn(ev, n, now) ==
  /\ app = "kalahok"
  /\ sa.pc = "idle"
  /\ Len(tblAttendance) < MaxRecords
  /\ event' = ev
  /\ name' = n
  /\ attToast' = ""
  /\ submitAttendance_call(ev, n, now)
  /\ UNCHANGED <<envVars, tampers, pasya, attStore, homePage, la, lastAttRun>>

\* --------------------------------------------------------------- HomePage
\* HomePage verifyHash
verifyHash(eventId, name_, timestamp, storedHash) ==
  LET data         == <<eventId>> \o <<"|">> \o name_ \o <<"|">> \o timestamp
      computedHash == SHA256hex(data)
  IN computedHash = storedHash

\* HomePage verifyAttendanceRecord
verifyAttendanceRecord(record) ==
  LET proof == SelectSingle(tblIntegrityProofs, "attendance_id", record.id)
  IN IF proof = <<>>
       THEN FALSE
       ELSE verifyHash(record.event_id, record.name, record.timestamp, proof[1].proof_hash)

\* the callback loadAttendance maps over data, after its proof lookup returned
loadAttendance_verify(record, proof) ==
  IF proof = <<>>
    THEN [done |-> TRUE, verified |-> FALSE, proof |-> <<>>, computed |-> <<>>]
    ELSE LET timestampStr == DateRoundTrip(record.timestamp)
             data         == <<record.event_id>> \o <<"|">> \o record.name
                             \o <<"|">> \o timestampStr
             computedHash == SHA256hex(data)
         IN [done |-> TRUE,
             verified |-> (computedHash = proof[1].proof_hash),
             proof |-> <<proof[1].proof_hash>>,
             computed |-> <<computedHash>>]

loadAttendance_start(c, eventId, recheck) ==
  /\ app = "kalahok"
  /\ la[c].pc = "idle"
  /\ selectedEvent' = eventId
  /\ la' = [la EXCEPT ![c] = [callIdle EXCEPT !.pc = "query", !.id = eventId,
                                              !.recheck = recheck,
                                              !.okAtStart = checkedIn]]

loadAttendance(c, eventId) ==
  /\ loadAttendance_start(c, eventId, FALSE)
  /\ homeToast' = ""
  /\ UNCHANGED <<envVars, tampers, pasya, attStore, attPage, attendance,
                 homeVerifying, lastAttRun>>

recheckIntegrityHome(c) ==
  /\ selectedEvent # Null
  /\ ~homeVerifying
  /\ homeVerifying' = TRUE
  /\ loadAttendance_start(c, selectedEvent, TRUE)
  /\ homeToast' = ""
  /\ UNCHANGED <<envVars, tampers, pasya, attStore, attPage, attendance, lastAttRun>>

\* the attendance query returns
loadAttendance_query(c) ==
  /\ la[c].pc = "query"
  /\ \E data \in SelectOrdered(tblAttendance, "event_id", la[c].id) :
       la' = [la EXCEPT ![c].pc = "lookups", ![c].data = data,
                        ![c].res = [i \in 1..Len(data) |-> pending]]
  /\ UNCHANGED <<envVars, tampers, pasya, attStore, attPage, homePage, lastAttRun>>

\* the proof lookup of record i returns and its callback runs to the end
loadAttendance_lookup(c, i) ==
  /\ la[c].pc = "lookups"
  /\ i \in 1..Len(la[c].data)
  /\ ~la[c].res[i].done
  /\ LET record == la[c].data[i]
         proof  == SelectSingle(tblIntegrityProofs, "attendance_id", record.id)
     IN la' = [la EXCEPT ![c].res[i] = loadAttendance_verify(record, proof)]
  /\ UNCHANGED <<envVars, tampers, pasya, attStore, attPage, homePage, lastAttRun>>

\* Promise.all resolved: setAttendance, and the tail of recheckIntegrity
loadAttendance_finish(c) ==
  /\ la[c].pc = "lookups"
  /\ \A i \in 1..Len(la[c].data) : la[c].res[i].done
  /\ attendance' = Verified(la[c])
  /\ la' = [la EXCEPT ![c] = callIdle]
  /\ lastAttRun' = IF la[c].dirty THEN lastAttRun
                   ELSE <<[id |-> la[c].id, flags |-> Flags(Verified(la[c]))]>>
  /\ IF la[c].recheck
       THEN /\ homeToast' = "Integrity check completed"
            /\ homeVerifying' = FALSE
       ELSE UNCHANGED <<homeToast, homeVerifying>>
  /\ UNCHANGED <<envVars, tampers, pasya, attStore, attPage, selectedEvent>>

\* the names attendees type in the audited runs
CheckInNames == { <<" ", "a">>, <<"b">> }

\* ---------------------------------------------------------- specification
\* createEvent with the form filled in: the events insert
createEvent(ok) ==
  /\ app = "kalahok"
  /\ created.events < MaxCreated
  /\ IF ok
       THEN /\ created' = [created EXCEPT !.events = @ + 1]
            /\ homeToast' = "Event created successfully!"
       ELSE /\ homeToast' = "Failed to create event"
            /\ UNCHANGED created
  /\ UNCHANGED <<app, tsRender, hashIn, hashOut, tampers, pasya, attStore, attPage,
                 selectedEvent, attendance, homeVerifying, la, lastAttRun>>

\* the audited runs: ballots are cast and the owner's page verifies, one
\* verification at a time
Next ==
  \/ \E b \in Ballots, now \in Instants : castVote(b, now)
  \/ \E ok \in BOOLEAN : submitVote_votes(ok)
  \/ \E ok \in BOOLEAN : submitVote_proofs(ok)
  \/ \E e \in ElectionIds : loadVotes("A", e)
  \/ recheckIntegrity("A")
  \/ loadVotes_query("A")
  \/ \E i \in 1..MaxRecords : loadVotes_lookup("A", i)
  \/ loadVotes_finish("A")
  \/ \E ev \in EventIds, n \in CheckInNames, now \in Instants : checkIn(ev, n, now)
  \/ \E ok \in BOOLEAN : submitAttendance_insert(ok)
  \/ \E ev \in EventIds : loadAttendance("A", ev)
  \/ recheckIntegrityHome("A")
  \/ loadAttendance_query("A")
  \/ \E i \in 1..MaxRecords : loadAttendance_lookup("A", i)
  \/ loadAttendance_finish("A")

Spec == Init /\ [][Next]_vars

\* the voter's page in full: every handler of VotePage, step by step
NextVote ==
  \/ \E e \in ElectionIds : loadElection(e)
  \/ \E n \in NameInputs : setVoterName(n)
  \/ \E k \in 1..Len(Positions(election)) :
       LET p == Positions(election)[k]
       IN \E j \in 1..Len(Candidates(p.id)) :
            handleSelection(p.id, Candidates(p.id)[j], p.selection_type, p.max_choices)
  \/ \E now \in Instants : submitVote(now)
  \/ \E ok \in BOOLEAN : submitVote_votes(ok)
  \/ \E ok \in BOOLEAN : submitVote_proofs(ok)
  \/ resetForm

\* the voting application alone
InitPasya == Init /\ app = "pasya"

SpecVote == InitPasya /\ [][NextVote]_vars

\* the runs with tampering: ballots of one election are cast, somebody changes
\* stored rows, and the owner's page verifies
NextTamper ==
  \/ \E b \in {x \in Ballots : x.election = "e1"}, now \in Instants : castVote(b, now)
  \/ submitVote_votes(TRUE)
  \/ \E ok \in BOOLEAN : submitVote_proofs(ok)
  \/ loadVotes("A", "e1")
  \/ loadVotes_query("A")
  \/ \E i \in 1..MaxRecords : loadVotes_lookup("A", i)
  \/ loadVotes_finish("A")
  \/ TamperVotes

SpecTamper == InitPasya /\ [][NextTamper]_vars

\* the hashing schemes on their own: the characters a field may hold, the
\* fields, and the tuples (parent id, name, content, timestamp) of strings
HashChars == {"a", "|"}

FieldStrings == UNION { [1..n -> HashChars] : n \in 1..MaxField }

HashTuples ==
  [parentId : {"e1", "e2"}, name : FieldStrings, content : FieldStrings,
   timestamp : FieldStrings]

\* a caller hands a tuple of fields to the hashing schemes
drawFields(t) ==
  /\ hashIn = <<>>
  /\ hashIn' = <<t>>
  /\ UNCHANGED <<app, tsRender, created, hashOut, tampers, pasya, kalahok>>

\* generateHash of VotePage and generateHash of AttendancePage run on the tuple
hashFields ==
  /\ hashIn # <<>>
  /\ hashOut = <<>>
  /\ LET t == hashIn[1]
     IN hashOut' = << [vote |-> generateHash(t.parentId, t.name, t.content, t.timestamp),
                       attendance |-> generateHashAttendance(t.parentId, t.name,
                                                             t.timestamp)] >>
  /\ UNCHANGED <<app, tsRender, created, hashIn, tampers, pasya, kalahok>>

NextHash ==
  \/ \E t \in HashTuples : drawFields(t)
  \/ hashFields

SpecHash == Init /\ [][NextHash]_vars

\* the owner's pages in full: an owner creates elections or events and verifies,
\* while one ballot of one election, or one name at one event, is submitted
NextOwner ==
  \/ \E b \in {x \in Ballots : x.election = "e2"}, now \in Instants : castVote(b, now)
  \/ \E ok \in BOOLEAN : submitVote_votes(ok)
  \/ \E ok \in BOOLEAN : submitVote_proofs(ok)
  \/ loadVotes("A", "e2")
  \/ recheckIntegrity("A")
  \/ loadVotes_query("A")
  \/ \E i \in 1..MaxRecords : loadVotes_lookup("A", i)
  \/ loadVotes_finish("A")
  \/ \E okElection, okPosition, okCandidate \in BOOLEAN :
       createElection(okElection, okPosition, okCandidate)
  \/ \E now \in Instants : checkIn("ev1", <<"b">>, now)
  \/ \E ok \in BOOLEAN : submitAttendance_insert(ok)
  \/ loadAttendance("A", "ev1")
  \/ recheckIntegrityHome("A")
  \/ loadAttendance_query("A")
  \/ \E i \in 1..MaxRecords : loadAttendance_lookup("A", i)
  \/ loadAttendance_finish("A")
  \/ \E ok \in BOOLEAN : createEvent(ok)

SpecOwner == Init /\ [][NextOwner]_vars

\* the runs that set a busy flag: submissions and rechecks, with every store
\* call returning (a call that is awaited gets its response)
NextBusy ==
  \/ \E b \in {x \in Ballots : x.election = "e2"}, now \in Instants : castVote(b, now)
  \/ \E ok \in BOOLEAN : submitVote_votes(ok)
  \/ \E ok \in BOOLEAN : submitVote_proofs(ok)
  \/ loadVotes("A", "e2")
  \/ recheckIntegrity("A")
  \/ loadVotes_query("A")
  \/ \E i \in 1..MaxRecords : loadVotes_lookup("A", i)
  \/ loadVotes_finish("A")
  \/ \E now \in Instants : checkIn("ev1", <<"b">>, now)
  \/ \E ok \in BOOLEAN : submitAttendance_insert(ok)
  \/ loadAttendance("A", "ev1")
  \/ recheckIntegrityHome("A")
  \/ loadAttendance_query("A")
  \/ \E i \in 1..MaxRecords : loadAttendance_lookup("A", i)
  \/ loadAttendance_finish("A")

FairBusy ==
  /\ Init
  /\ [][NextBusy]_vars
  /\ WF_vars(\E ok \in BOOLEAN : submitVote_votes(ok))
  /\ WF_vars(\E ok \in BOOLEAN : submitVote_proofs(ok))
  /\ WF_vars(loadVotes_query("A"))
  /\ WF_vars(\E i \in 1..MaxRecords : loadVotes_lookup("A", i))
  /\ WF_vars(loadVotes_finish("A"))
  /\ WF_vars(\E ok \in BOOLEAN : submitAttendance_insert(ok))
  /\ WF_vars(loadAttendance_query("A"))
  /\ WF_vars(\E i \in 1..MaxRecords : loadAttendance_lookup("A", i))
  /\ WF_vars(loadAttendance_finish("A"))

\* the digests a proof row of an attendance record may hold: that of the
\* fields joined with '|', the timestamp in the toISOString form or as the store
\* renders it, and the digest the attendance page computed
ProofDigests(r) ==
  { SHA256hex(<<r.event_id>> \o <<"|">> \o r.name \o <<"|">>
              \o toISOString(DateParse(r.timestamp))),
    SHA256hex(<<r.event_id>> \o <<"|">> \o r.name \o <<"|">> \o r.timestamp),
    r.hash }

\* a proof row of attendance record a is stored in integrity_proofs, the table
\* the verifiers read
storeProof(a, digest) ==
  /\ app = "kalahok"
  /\ a \in 1..Len(tblAttendance)
  /\ ~\E k \in 1..Len(tblIntegrityProofs) : tblIntegrityProofs[k].attendance_id = a
  /\ tblIntegrityProofs' = Append(tblIntegrityProofs,
                                  [attendance_id |-> a, proof_hash |-> digest])
  /\ AttStoreChanged
  /\ UNCHANGED <<envVars, tampers, pasya, tblAttendance, origAttendance, checkedIn,
                 attPage, homePage>>

\* the attendance verifiers over records that have proof rows
NextProofs ==
  \/ \E n \in CheckInNames, now \in Instants : checkIn("ev1", n, now)
  \/ \E ok \in BOOLEAN : submitAttendance_insert(ok)
  \/ \E a \in 1..Len(tblAttendance) :
       \E digest \in ProofDigests(tblAttendance[a]) : storeProof(a, digest)
  \/ loadAttendance("A", "ev1")
  \/ loadAttendance_query("A")
  \/ \E i \in 1..MaxRecords : loadAttendance_lookup("A", i)
  \/ loadAttendance_finish("A")

\* the attendance application alone
InitKalahok == Init /\ app = "kalahok"

SpecProofs == InitKalahok /\ [][NextProofs]_vars

\* a voter on the page of an election with a position of up to two choices
\* among three candidates: typing and clicking, without submitting
NextSelect ==
  \/ loadElection("e3")
  \/ \E n \in NameInputs : setVoterName(n)
  \/ \E k \in 1..Len(Positions(election)) :
       LET p == Positions(election)[k]
       IN \E j \in 1..Len(Candidates(p.id)) :
            handleSelection(p.id, Candidates(p.id)[j], p.selection_type, p.max_choices)

SpecSelect == InitPasya /\ [][NextSelect]_vars

\* the owner clicking from election to election: up to two loadVotes calls in
\* flight at once, their store responses arriving in any order, while one
\* voter of each election submits
NextRace ==
  \/ \E b \in {x \in Ballots : x.voterName = <<"b">>} : castVote(b, 1)
  \/ submitVote_votes(TRUE)
  \/ submitVote_proofs(TRUE)
  \/ \E c \in Calls, e \in ElectionIds : loadVotes(c, e)
  \/ \E c \in Calls : loadVotes_query(c)
  \/ \E c \in Calls, i \in 1..MaxRecords : loadVotes_lookup(c, i)
  \/ \E c \in Calls : loadVotes_finish(c)

SpecRace == InitPasya /\ [][NextRace]_vars

\* ------------------------------------------------------------------ claims
\* the results a call has computed so far, with their records
Done(call) == { i \in 1..Len(call.res) : call.res[i].done }

\* C1: a vote whose submitVote completed with both inserts succeeding, and whose
\* stored row is as it was inserted, is marked verified = true by every
\* loadVotes started afterwards: the recomputed digest equals the stored
\* proof_hash, and the list a run over the unchanged store produced holds the
\* record with verified = true.
C1_VoteRoundTrip ==
  /\ \A c \in Calls : \A i \in Done(lv[c]) :
       LET r == lv[c].data[i] IN
         (r.id \in lv[c].okAtStart /\ r = origVotes[r.id])
           => /\ lv[c].res[i].verified
              /\ lv[c].res[i].proof # <<>>
              /\ lv[c].res[i].computed = lv[c].res[i].proof
  /\ lastRun # <<>> =>
       \A v \in submittedOK :
         (tblVotes[v] = origVotes[v] /\ tblVotes[v].election_id = lastRun[1].id)
           => <<v, TRUE>> \in lastRun[1].flags

\* a run over the unchanged store has listed a successfully submitted vote as
\* verified, the store rendering timestamps in its own form and another row
\* having been tampered with
C1_Witness ==
  /\ tsRender = OffsetForm
  /\ tampers > 0
  /\ lastRun # <<>>
  /\ \E v \in submittedOK : <<v, TRUE>> \in lastRun[1].flags

\* C2: an attendance record whose submitAttendance completed without error, and
\* whose stored row is as it was inserted, is marked verified = true by every
\* loadAttendance started afterwards.
C2_AttendanceRoundTrip ==
  \A c \in Calls : \A i \in Done(la[c]) :
    LET r == la[c].data[i] IN
      (r.id \in la[c].okAtStart /\ r = origAttendance[r.id]) => la[c].res[i].verified

\* the columns of a vote row that enter the digest
HashedColumns == {"election_id", "voter_name", "vote_data", "timestamp"}

\* C3: when one hashed column of a stored vote differs from the row the proof
\* was made for, the proof row being there, loadVotes marks the record
\* verified = false.
C3_TamperDetection ==
  \A c \in Calls : \A i \in Done(lv[c]) :
    LET r == lv[c].data[i]
        o == origVotes[r.id]
    IN (/\ lv[c].res[i].proof # <<>>
        /\ Cardinality({col \in HashedColumns : r[col] # o[col]}) = 1)
         => ~lv[c].res[i].verified

\* C4: in loadVotes and in loadAttendance a record whose proof lookup found no
\* row -- in particular every record no proof row refers to -- is marked
\* verified = false, and no digest was computed for it.
C4_MissingProof ==
  /\ \A c \in Calls : \A i \in Done(lv[c]) :
       (\/ lv[c].res[i].proof = <<>>
        \/ ~\E k \in 1..Len(tblVoteProofs) : tblVoteProofs[k].vote_id = lv[c].data[i].id)
         => ~lv[c].res[i].verified /\ lv[c].res[i].computed = <<>>
  /\ \A c \in Calls : \A i \in Done(la[c]) :
       (\/ la[c].res[i].proof = <<>>
        \/ ~\E k \in 1..Len(tblIntegrityProofs) :
              tblIntegrityProofs[k].attendance_id = la[c].data[i].id)
         => ~la[c].res[i].verified /\ la[c].res[i].computed = <<>>

\* loadVotes has looked up a vote whose proof insert failed, next to one whose
\* proof was found
C4_Witness ==
  \E c \in Calls : \E i, j \in Done(lv[c]) :
    /\ lv[c].res[i].proof = <<>>
    /\ lv[c].data[i].id \notin submittedOK
    /\ lv[c].res[j].proof # <<>>

\* a step of a verification run
VerifyStep ==
  \E c \in Calls :
    \/ lv'[c].pc # lv[c].pc
    \/ lv'[c].res # lv[c].res
    \/ la'[c].pc # la[c].pc
    \/ la'[c].res # la[c].res

\* C5: no step of loadVotes, loadAttendance or recheckIntegrity inserts, updates
\* or deletes a row of votes, vote_proofs, attendance or integrity_proofs.
C5_ReadOnly ==
  [][VerifyStep => UNCHANGED <<tblVotes, tblVoteProofs, tblAttendance,
                               tblIntegrityProofs>>]_vars

\* a verification has run to its end over a store holding a vote without a proof
C5_Witness ==
  /\ lastRun # <<>>
  /\ \E v \in 1..Len(tblVotes) : <<v, FALSE>> \in lastRun[1].flags

\* C6: when a run of loadVotes (or recheckIntegrity) ends, and the stored votes
\* and proofs have not changed since an earlier run for the same election
\* began, it gives every record the flag the earlier run gave it.
C6_Idempotence ==
  [][\A c \in Calls :
       (/\ lv[c].pc = "lookups"
        /\ lv'[c].pc = "idle"
        /\ ~lv[c].dirty
        /\ lastRun # <<>>
        /\ lastRun[1].id = lv[c].id)
         => Flags(votes') = lastRun[1].flags]_vars

\* a second run over the unchanged store is about to end, over a batch holding
\* a verified record and an unverified one
C6_Witness ==
  \E c \in Calls :
    /\ lv[c].pc = "lookups"
    /\ ~lv[c].dirty
    /\ lv[c].recheck
    /\ lastRun # <<>>
    /\ lastRun[1].id = lv[c].id
    /\ Done(lv[c]) = {1, 2}
    /\ lv[c].res[1].verified # lv[c].res[2].verified

\* the digest of a stored vote row as loadVotes computes it
OwnDigest(r) ==
  generateHash(r.election_id, r.voter_name, JSONstringify(r.vote_data),
               DateRoundTrip(r.timestamp))

\* C7: in a loadVotes batch the flag of a record is decided by the record's own
\* stored columns and its own proof row alone: true exactly when a proof row
\* of that record was found and the digest of the record's columns equals it.
C7_BatchIndependence ==
  \A c \in Calls : \A i \in Done(lv[c]) :
    LET r   == lv[c].data[i]
        res == lv[c].res[i]
    IN IF res.proof = <<>>
         THEN ~res.verified
         ELSE /\ \E k \in 1..Len(tblVoteProofs) :
                   tblVoteProofs[k] = [vote_id |-> r.id, proof_hash |-> res.proof[1]]
              /\ res.verified = (OwnDigest(r) = res.proof[1])

\* a batch of two records with proofs: the first mismatches, the second is valid
C7_Witness ==
  \E c \in Calls :
    /\ Done(lv[c]) = {1, 2}
    /\ lv[c].res[1].proof # <<>> /\ ~lv[c].res[1].verified
    /\ lv[c].res[2].proof # <<>> /\ lv[c].res[2].verified

\* C8: the list loadVotes / loadAttendance publishes has the length of the list
\* the store query returned and the same record at every position.
C8_BatchOrder ==
  [][\A c \in Calls :
       /\ (lv[c].pc = "lookups" /\ lv'[c].pc = "idle")
            => /\ Len(votes') = Len(lv[c].data)
               /\ \A i \in 1..Len(lv[c].data) :
                    /\ votes'[i].rec = lv[c].data[i]
                    /\ votes'[i].verified = lv[c].res[i].verified
       /\ (la[c].pc = "lookups" /\ la'[c].pc = "idle")
            => /\ Len(attendance') = Len(la[c].data)
               /\ \A i \in 1..Len(la[c].data) :
                    /\ attendance'[i].rec = la[c].data[i]
                    /\ attendance'[i].verified = la[c].res[i].verified]_vars

\* a list of two records with different flags has been published, and in the
\* next run the lookup of the second record has returned before the first
C8_Witness ==
  /\ Len(votes) = 2
  /\ votes[1].verified # votes[2].verified
  /\ \E c \in Calls : Done(lv[c]) = {2} /\ Len(lv[c].data) = 2

\* C9: when the votes insert of submitVote returns an error, submitVote ends
\* there with the toast 'Failed to submit vote', submitting false and submitted
\* false, and no vote_proofs insert is made for that submission.
C9_RecordInsertFailure ==
  /\ [][(sv'.voteInserts = sv.voteInserts + 1 /\ tblVotes' = tblVotes)
          => /\ sv'.pc = "idle"
             /\ voteToast' = "Failed to submit vote"
             /\ ~submitting'
             /\ ~submitted'
             /\ tblVoteProofs' = tblVoteProofs]_vars
  /\ []((sv.voteInserts = 1 /\ sv.voteRecord = 0) => sv.proofInserts = 0)

\* the votes insert has just failed
C9_Witness ==
  /\ sv.pc = "idle"
  /\ sv.voteInserts = 1
  /\ sv.voteRecord = 0
  /\ voteToast = "Failed to submit vote"

\* C10: when the votes insert succeeded and the vote_proofs insert returns an
\* error, the vote row stays stored with no proof row, the toast is 'Failed to
\* create vote proof', and submitted stays false; submitted becomes true only
\* in the step that stores the proof row of the vote row just inserted.
C10_ProofInsertFailure ==
  /\ [][(sv'.proofInserts = sv.proofInserts + 1 /\ tblVoteProofs' = tblVoteProofs)
          => /\ tblVotes' = tblVotes
             /\ sv.voteRecord \in 1..Len(tblVotes')
             /\ ~\E k \in 1..Len(tblVoteProofs') :
                   tblVoteProofs'[k].vote_id = sv.voteRecord
             /\ voteToast' = "Failed to create vote proof"
             /\ ~submitting'
             /\ ~submitted']_vars
  /\ [][(submitted' /\ ~submitted)
          => /\ sv.voteRecord \in 1..Len(tblVotes)
             /\ tblVoteProofs' = Append(tblVoteProofs,
                                        [vote_id |-> sv.voteRecord, proof_hash |-> sv.hash])]_vars

\* the proof insert has just failed: the vote row is stored without a proof
C10_Witness ==
  /\ sv.pc = "idle"
  /\ sv.proofInserts = 1
  /\ voteToast = "Failed to create vote proof"
  /\ sv.voteRecord \in 1..Len(tblVotes)
  /\ ~\E k \in 1..Len(tblVoteProofs) : tblVoteProofs[k].vote_id = sv.voteRecord

\* C11: a step of submitVote that writes vote_proofs appends one row, is taken
\* after the votes insert of the same submission returned a row, and keys the
\* proof by the id of that row, which holds the fields this submission sent;
\* every proof row references a stored vote.
C11_WriteOrdering ==
  /\ [][(tblVotes' # tblVotes)
          => /\ sv.pc = "votes"
             /\ sv.proofInserts = 0
             /\ sv'.voteRecord = Len(tblVotes')]_vars
  /\ [][(tblVoteProofs' # tblVoteProofs)
          => /\ sv.pc = "proofs"
             /\ sv.voteInserts = 1
             /\ sv.voteRecord \in 1..Len(tblVotes)
             /\ tblVotes[sv.voteRecord].election_id = sv.election_id
             /\ tblVotes[sv.voteRecord].voter_name = sv.voter_name
             /\ tblVotes[sv.voteRecord].vote_data = sv.vote_data
             /\ tblVotes' = tblVotes
             /\ tblVoteProofs' = Append(tblVoteProofs,
                                        [vote_id |-> sv.voteRecord, proof_hash |-> sv.hash])]_vars
  /\ [](\A k \in 1..Len(tblVoteProofs) : tblVoteProofs[k].vote_id \in 1..Len(tblVotes))

\* the second submission has stored its proof after the proof insert of the
\* first one failed
C11_Witness ==
  /\ Len(tblVotes) = 2
  /\ Len(tblVoteProofs) = 1
  /\ tblVoteProofs[1].vote_id = 2
  /\ sv.pc = "idle"

\* C12: whatever submissions were made, with resetForm between them and with
\* inserts failing, every stored vote is referenced by at most one vote_proofs row.
C12_AtMostOneProof ==
  \A v \in 1..Len(tblVotes) :
    Cardinality({k \in 1..Len(tblVoteProofs) : tblVoteProofs[k].vote_id = v}) <= 1

\* a second vote was submitted through resetForm: both votes have their proof
C12_Witness ==
  /\ Len(tblVotes) = 2
  /\ Len(tblVoteProofs) = 2
  /\ submitted
  /\ sv.pc = "idle"

\* C13: every step of the program (submission, verification, recheck, election
\* or event creation) leaves each proof row written so far in place with its
\* record id and its digest: the proof tables only grow at the end.
C13_ProofImmutability ==
  [][/\ Len(tblVoteProofs') >= Len(tblVoteProofs)
     /\ \A k \in 1..Len(tblVoteProofs) : tblVoteProofs'[k] = tblVoteProofs[k]
     /\ Len(tblIntegrityProofs') >= Len(tblIntegrityProofs)
     /\ \A k \in 1..Len(tblIntegrityProofs) :
          tblIntegrityProofs'[k] = tblIntegrityProofs[k]]_vars

\* a proof row was written, then a verification ran to its end over it and a
\* later vote was stored without a proof, with an election created on the way
C13_Witness ==
  /\ Len(tblVotes) = 2
  /\ Len(tblVoteProofs) = 1
  /\ tblVoteProofs[1].vote_id = 1
  /\ Len(votes) = 1
  /\ votes[1].verified
  /\ created.elections = 1
  /\ sv.pc = "idle"

\* the lifecycle state of the vote record with id v, read off the tables tv
\* (votes) and tp (vote_proofs) and the submitVote call in flight
LifecycleOf(v, tv, tp, call) ==
  IF v \in 1..Len(tv)
    THEN IF \E k \in 1..Len(tp) : tp[k].vote_id = v THEN "ProofStored"
         ELSE IF call.pc = "proofs" /\ call.voteRecord = v THEN "ProofPending"
         ELSE "ProofMissing"
    ELSE IF call.pc = "votes" /\ v = Len(tv) + 1 THEN "Submitted"
    ELSE "None"

\* the moves of the lifecycle; a submission whose votes insert fails leaves no
\* record behind
LifecycleMoves ==
  { <<"None", "Submitted">>, <<"Submitted", "None">>, <<"Submitted", "ProofPending">>,
    <<"ProofPending", "ProofStored">>, <<"ProofPending", "ProofMissing">> }

\* C14: in every step each vote record keeps its lifecycle state or makes one
\* of the moves Submitted -> ProofPending -> ProofStored | ProofMissing (a
\* record being Submitted from the start of its submission until the votes
\* insert returns); nothing leaves ProofStored or ProofMissing, nothing returns
\* to Submitted, and a step of loadVotes or recheckIntegrity changes the
\* state of no record.
C14_Lifecycle ==
  /\ [][\A v \in 1..(MaxRecords + 1) :
         LET before == LifecycleOf(v, tblVotes, tblVoteProofs, sv)
             after  == LifecycleOf(v, tblVotes', tblVoteProofs', sv')
         IN after = before \/ <<before, after>> \in LifecycleMoves]_vars
  /\ [][VerifyStep
         => \A v \in 1..(MaxRecords + 1) :
              LifecycleOf(v, tblVotes', tblVoteProofs', sv')
                = LifecycleOf(v, tblVotes, tblVoteProofs, sv)]_vars

\* one record is ProofMissing, a later one ProofPending, and a verification
\* is under way that has already looked at the first
C14_Witness ==
  /\ LifecycleOf(1, tblVotes, tblVoteProofs, sv) = "ProofMissing"
  /\ LifecycleOf(2, tblVotes, tblVoteProofs, sv) = "ProofPending"
  /\ \E c \in Calls : lv[c].pc = "lookups" /\ Done(lv[c]) # {}

\* C15: a submission makes each of its inserts at most once -- submitVote the
\* votes insert and the vote_proofs insert, submitAttendance its attendance
\* insert; an insert that fails ends the submission, and the record and proof
\* tables are written only by a submission in flight, so nothing is written
\* for a submission after one of its inserts failed.
C15_NoRetry ==
  /\ [](sv.voteInserts <= 1 /\ sv.proofInserts <= 1 /\ sa.inserts <= 1)
  /\ [][/\ (sv'.voteInserts = sv.voteInserts + 1 /\ tblVotes' = tblVotes)
            => sv'.pc = "idle"
        /\ (sv'.proofInserts = sv.proofInserts + 1 /\ tblVoteProofs' = tblVoteProofs)
            => sv'.pc = "idle"
        /\ (sa'.inserts = sa.inserts + 1 /\ tblAttendance' = tblAttendance)
            => sa'.pc = "idle"
        /\ sv.pc = "idle" => UNCHANGED <<tblVotes, tblVoteProofs>>
        /\ sa.pc = "idle" => UNCHANGED <<tblAttendance, tblIntegrityProofs>>]_vars

\* the proof insert of a submission failed, and a verification run made
\* afterwards found the vote still without a proof
C15_Witness ==
  /\ sv.pc = "idle"
  /\ sv.voteInserts = 1
  /\ sv.proofInserts = 1
  /\ Len(tblVotes) = 1
  /\ tblVoteProofs = <<>>
  /\ lastRun # <<>>
  /\ <<1, FALSE>> \in lastRun[1].flags

\* the timestamp string at the end of the string a digest was computed from
HashedTimestamp(hash) == SubSeq(hash, Len(hash) - 1, Len(hash))

\* C16: when submitVote or submitAttendance stores its record, the timestamp
\* string that went into the digest is the timestamp string the call sends to
\* the store, and the instant the new row holds is the instant of that string.
C16_TimestampOnce ==
  [][/\ (tblVotes' # tblVotes)
          => LET row == tblVotes'[Len(tblVotes')]
             IN /\ HashedTimestamp(sv.hash) = sv.timestamp
                /\ DateParse(row.timestamp) = DateParse(HashedTimestamp(sv.hash))
     /\ (tblAttendance' # tblAttendance)
          => LET row == tblAttendance'[Len(tblAttendance')]
             IN /\ HashedTimestamp(sa.hash) = sa.timestamp
                /\ DateParse(row.timestamp) = DateParse(HashedTimestamp(sa.hash))]_vars

\* two votes submitted at different clock readings are stored, the store
\* rendering timestamps in its own form
C16_Witness ==
  /\ Len(tblVotes) = 2
  /\ DateParse(tblVotes[1].timestamp) # DateParse(tblVotes[2].timestamp)
  /\ tsRender = OffsetForm
  /\ Len(tblVoteProofs) = 2

\* C17: for every record whose proof was found, the digest loadVotes /
\* loadAttendance recompute is the digest of the record's fields with the
\* timestamp string exactly as the store returned it.
C17_VerbatimTimestamp ==
  \A c \in Calls :
    /\ \A i \in Done(lv[c]) :
         LET r == lv[c].data[i]
         IN lv[c].res[i].proof # <<>>
              => lv[c].res[i].computed
                   = << generateHash(r.election_id, r.voter_name,
                                     JSONstringify(r.vote_data), r.timestamp) >>
    /\ \A i \in Done(la[c]) :
         LET r == la[c].data[i]
         IN la[c].res[i].proof # <<>>
              => la[c].res[i].computed
                   = << SHA256hex(<<r.event_id>> \o <<"|">> \o r.name \o <<"|">>
                                  \o r.timestamp) >>

\* C18: generator and verifier build the same string from equal field values.
\* Votes: for every proof row, the digest loadVotes recomputes from the fields
\* of its vote row as stored is the digest generateHash made at submission.
\* Attendance: for every stored row whose digest is generateHash of the row's
\* own event id, name and timestamp, verifyHash and the callback of
\* loadAttendance, given these fields and that digest, find a match.
C18_IdenticalCanonicalization ==
  /\ \A k \in 1..Len(tblVoteProofs) :
       LET p == tblVoteProofs[k]
           r == tblVotes[p.vote_id]
       IN loadVotes_verify(r, <<p>>).computed = <<p.proof_hash>>
  /\ \A i \in 1..Len(tblAttendance) :
       LET r  == tblAttendance[i]
           ts == DateRoundTrip(r.timestamp)
       IN r.hash = generateHashAttendance(r.event_id, r.name, ts)
            => /\ verifyHash(r.event_id, r.name, ts, r.hash)
               /\ loadAttendance_verify(r, << [attendance_id |-> r.id,
                                               proof_hash |-> r.hash] >>).verified

\* C19: in the scheme of the votes and in the scheme of the attendance, a tuple
\* of fields (parent id, submitter content, timestamp) different from the one
\* that was hashed never gives the string that was hashed.
C19_InjectiveCanonicalization ==
  hashOut # <<>>
    => \A t \in HashTuples :
         /\ t # hashIn[1]
              => generateHash(t.parentId, t.name, t.content, t.timestamp)
                   # hashOut[1].vote
         /\ <<t.parentId, t.name, t.timestamp>>
              # <<hashIn[1].parentId, hashIn[1].name, hashIn[1].timestamp>>
              => generateHashAttendance(t.parentId, t.name, t.timestamp)
                   # hashOut[1].attendance

\* C20: every vote whose submitVote succeeded has a vote_proofs row keyed by
\* its id, every attendance record whose submitAttendance succeeded has an
\* integrity_proofs row keyed by its id, and no column of the record row holds
\* the digest.
C20_ProofAlongside ==
  /\ \A v \in submittedOK :
       /\ \E k \in 1..Len(tblVoteProofs) : tblVoteProofs[k].vote_id = v
       /\ DOMAIN tblVotes[v] \cap {"hash", "proof_hash"} = {}
  /\ \A a \in checkedIn :
       /\ \E k \in 1..Len(tblIntegrityProofs) : tblIntegrityProofs[k].attendance_id = a
       /\ DOMAIN tblAttendance[a] \cap {"hash", "proof_hash"} = {}

\* what a selections object says: for every position, the set of candidates
SameChoices(a, b) ==
  { <<a[i][1], Range(a[i][2])>> : i \in 1..Len(a) }
    = { <<b[i][1], Range(b[i][2])>> : i \in 1..Len(b) }

\* C21: two stored votes of one election that choose the same set of
\* candidates for every position have the same JSON.stringify string, in
\* whatever order their positions and candidates were clicked; and the string
\* loadVotes serializes from the stored vote_data of a vote is the string
\* submitVote serialized for it.
C21_DeterministicSerialization ==
  /\ \A i, j \in 1..Len(tblVotes) :
       (/\ tblVotes[i].election_id = tblVotes[j].election_id
        /\ SameChoices(tblVotes[i].vote_data, tblVotes[j].vote_data))
         => JSONstringify(tblVotes[i].vote_data) = JSONstringify(tblVotes[j].vote_data)
  /\ sv.pc = "proofs"
       => JSONstringify(tblVotes[sv.voteRecord].vote_data) = JSONstringify(sv.vote_data)

\* C22: the digests are functions of the fields alone: two votes with proofs
\* whose election id, name, content and submission instant are equal have
\* equal digests, and so have two attendance records with equal event id,
\* name and instant, whatever the pages and the store held when each digest
\* was computed.
C22_Determinism ==
  /\ \A k1, k2 \in 1..Len(tblVoteProofs) :
       LET r1 == tblVotes[tblVoteProofs[k1].vote_id]
           r2 == tblVotes[tblVoteProofs[k2].vote_id]
       IN (/\ r1.election_id = r2.election_id
           /\ r1.voter_name = r2.voter_name
           /\ r1.vote_data = r2.vote_data
           /\ DateParse(r1.timestamp) = DateParse(r2.timestamp))
            => tblVoteProofs[k1].proof_hash = tblVoteProofs[k2].proof_hash
  /\ \A i, j \in 1..Len(tblAttendance) :
       LET r1 == tblAttendance[i]
           r2 == tblAttendance[j]
       IN (/\ r1.event_id = r2.event_id
           /\ r1.name = r2.name
           /\ DateParse(r1.timestamp) = DateParse(r2.timestamp))
            => r1.hash = r2.hash

\* the same ballot was submitted twice at the same clock reading, the first
\* time into the empty store, and both proofs are stored
C22_Witness ==
  /\ Len(tblVoteProofs) = 2
  /\ tblVoteProofs[1].vote_id # tblVoteProofs[2].vote_id
  /\ tblVotes[1].election_id = tblVotes[2].election_id
  /\ tblVotes[1].voter_name = tblVotes[2].voter_name
  /\ tblVotes[1].vote_data = tblVotes[2].vote_data
  /\ tblVotes[1].timestamp = tblVotes[2].timestamp

\* C23: an insert that fails is reported: a failed votes, vote_proofs or
\* attendance insert ends in its failure toast, and createEvent and
\* createElection show their success toast only when every insert they made
\* stored its row (for createElection: the election, its position and the
\* candidate of the position).
C23_NoSilentFailure ==
  [][/\ (sv'.voteInserts = sv.voteInserts + 1 /\ tblVotes' = tblVotes)
          => voteToast' = "Failed to submit vote"
     /\ (sv'.proofInserts = sv.proofInserts + 1 /\ tblVoteProofs' = tblVoteProofs)
          => voteToast' = "Failed to create vote proof"
     /\ (sa'.inserts = sa.inserts + 1 /\ tblAttendance' = tblAttendance)
          => attToast' = "Failed to submit attendance"
     /\ (homeToast' = "Event created successfully!" /\ homeToast' # homeToast)
          => created'.events = created.events + 1
     /\ (dashToast' = "Election created successfully!" /\ created' # created)
          => /\ created'.elections = created.elections + 1
             /\ created'.positions = created.positions + 1
             /\ created'.candidates = created.candidates + 1]_vars

\* C24: the digest of every submission is the digest of the values its record
\* row holds: for a vote the election_id, voter_name, vote_data and timestamp
\* columns, for an attendance record the event_id, name and timestamp
\* columns, also when the name was typed with leading or trailing whitespace.
C24_HashedEqualsPersisted ==
  /\ \A k \in 1..Len(tblVoteProofs) :
       LET r == tblVotes[tblVoteProofs[k].vote_id]
       IN tblVoteProofs[k].proof_hash
            = generateHash(r.election_id, r.voter_name, JSONstringify(r.vote_data),
                           toISOString(DateParse(r.timestamp)))
  /\ \A i \in 1..Len(tblAttendance) :
       LET r == tblAttendance[i]
       IN r.hash = generateHashAttendance(r.event_id, r.name,
                                          toISOString(DateParse(r.timestamp)))

C26_DisplayedMatchSelected ==
  (selectedElection # Null /\ \A c \in Calls : lv[c].pc = "idle")
    => \A j \in 1..Len(votes) : votes[j].rec.election_id = selectedElection

\* C27: every stored vote holds at least one candidate for every position of
\* its election.
C27_AllPositionsVoted ==
  \A v \in 1..Len(tblVotes) :
    \A k \in 1..Len(Positions(tblVotes[v].election_id)) :
      GetKey(tblVotes[v].vote_data, Positions(tblVotes[v].election_id)[k].id) # <<>>

\* C28: whatever was clicked, every single-choice position of the loaded
\* election holds at most one candidate, and one candidate whenever a click
\* changed it; every multiple-choice position holds at most max_choices
\* candidates, none of them twice; no candidate enters a position that is
\* full, and the click that shows 'Maximum ... choices allowed' leaves the
\* selections as they were.
C28_SelectionBounds ==
  /\ [](\A k \in 1..Len(Positions(election)) :
          LET p       == Positions(election)[k]
              current == GetKey(selections, p.id)
          IN /\ Len(current) <= (IF p.selection_type = "single" THEN 1 ELSE p.max_choices)
             /\ Cardinality(Range(current)) = Len(current))
  /\ [][/\ voteToast' = "Maximum choices allowed" => selections' = selections
        /\ election' = election
             => \A k \in 1..Len(Positions(election)) :
                  LET p      == Positions(election)[k]
                      before == GetKey(selections, p.id)
                      after  == GetKey(selections', p.id)
                  IN /\ (p.selection_type = "single" /\ after # before)
                          => Len(after) = 1
                     /\ (p.selection_type = "multiple" /\ Len(before) = p.max_choices)
                          => Range(after) \subseteq Range(before)]_vars

\* the position of two choices is full, a third candidate was refused, and the
\* single-choice position holds a candidate
C28_Witness ==
  /\ election = "e3"
  /\ Len(GetKey(selections, "p4")) = 2
  /\ Len(GetKey(selections, "p5")) = 1
  /\ voteToast = "Maximum choices allowed"

\* C29: for every stored attendance record that has a proof row,
\* verifyAttendanceRecord and the callback of loadAttendance give the same
\* verdict.
C29_VerifiersAgree ==
  \A i \in 1..Len(tblAttendance) :
    LET r     == tblAttendance[i]
        proof == SelectSingle(tblIntegrityProofs, "attendance_id", r.id)
    IN proof # <<>>
         => verifyAttendanceRecord(r) = loadAttendance_verify(r, proof).verified

\* C30: submitting is true only while a submitVote (submitAttendance) run is
\* in flight and verifying only while a recheckIntegrity run is in flight,
\* and, every store call returning, each flag that is true becomes false
\* again, whether the inserts fail or succeed.
C30_BusyFlagsReleased ==
  /\ [](submitting => sv.pc # "idle")
  /\ [](attSubmitting => sa.pc # "idle")
  /\ [](verifying => \E c \in Calls : lv[c].pc # "idle" /\ lv[c].recheck)
  /\ [](homeVerifying => \E c \in Calls : la[c].pc # "idle" /\ la[c].recheck)
  /\ (submitting ~> ~submitting)
  /\ (attSubmitting ~> ~attSubmitting)
  /\ (verifying ~> ~verifying)
  /\ (homeVerifying ~> ~homeVerifying)

\* a submission and a recheck are in flight together, both flags set, after an
\* earlier submission whose proof insert failed
C30_Witness ==
  /\ submitting
  /\ verifying
  /\ Len(tblVotes) = 1
  /\ tblVoteProofs = <<>>
  /\ sv.pc = "votes"

====
